---- MODULE Spec2Model ----
(***************************************************************************)
(* The typed fetch/validation layer of the ads-administrator frontend:     *)
(* the client-side fetchApi (lib/api/client.ts) and the server-side        *)
(* serverFetch (lib/api/server.ts), their URL builders, the process-wide   *)
(* token getter slot and the Auth0 token acquisition the server uses.      *)
(***************************************************************************)
EXTENDS Integers, Sequences, FiniteSets, TLC

VARIABLES
    getAccessToken,  \* client.ts: the module-level token getter slot
    installed,       \* history: the argument of the last setTokenGetter call
    calls,           \* the invocations of fetchApi / serverFetch, by call id
    urlIn,           \* URL builder harness: the (kind, path, params) under test
    urlOut,          \* URL builder harness: the URL built from urlIn, or NoUrl
    options,         \* useAsync: the options the hook was rendered with
    state,           \* useAsync: the useState value {data, loading, error}
    mountedRef,      \* useAsync: mountedRef.current
    phase,           \* useAsync: the component is rendered, mounted or unmounted
    timer,           \* useAsync: the setTimeout of the `immediate` effect
    execs,           \* useAsync: the execute() calls, by execution id
    lateUpdates,     \* history: who called setState after the unmount cleanup
    mw,              \* middleware: the request under test and the response to it
    serverAction,    \* createClientAction: its invocation
    wrap             \* service wrappers: the operation both wrappers are called for

fetchVars == <<getAccessToken, installed, calls>>
urlVars == <<urlIn, urlOut>>
hookVars == <<options, state, mountedRef, phase, timer, execs, lateUpdates>>
appVars == <<mw, serverAction, wrap>>
vars == <<fetchVars, urlVars, hookVars, appVars>>

(***************************************************************************)
(* JavaScript values.  One record shape for every primitive, so that any   *)
(* two values can be compared.                                             *)
(***************************************************************************)
Undef == [t |-> "undefined", s |-> "", n |-> 0]
Null == [t |-> "null", s |-> "", n |-> 0]
Str(x) == [t |-> "string", s |-> x, n |-> 0]
Num(x) == [t |-> "number", s |-> "", n |-> x]
Bool(b) == [t |-> "boolean", s |-> "", n |-> IF b THEN 1 ELSE 0]
\* a nested array/object value whose content the layer never looks into
Obj == [t |-> "object", s |-> "", n |-> 0]
NaN == [t |-> "NaN", s |-> "", n |-> 0]

\* ToBoolean: what `if (v)`, `v || w` and `v ? a : b` test
Truthy(v) ==
    CASE v.t \in {"undefined", "null", "NaN"} -> FALSE
      [] v.t = "string" -> v.s # ""
      [] v.t = "number" -> v.n # 0
      [] v.t = "boolean" -> v.n = 1
      [] OTHER -> TRUE

\* what `v ?? w` tests
Nullish(v) == v.t \in {"undefined", "null"}

\* String(v) and template-literal interpolation `${v}`
String(v) ==
    CASE v.t = "string" -> v.s
      [] v.t = "number" -> ToString(v.n)
      [] v.t = "boolean" -> (IF v.n = 1 THEN "true" ELSE "false")
      [] v.t = "undefined" -> "undefined"
      [] v.t = "null" -> "null"
      [] v.t = "NaN" -> "NaN"
      [] OTHER -> "[object Object]"

(***************************************************************************)
(* URL construction: buildUrl (client.ts) and the loop of serverFetch.     *)
(***************************************************************************)
API_BASE_URL == "http://localhost:8000"

\* application/x-www-form-urlencoded serialisation of one name or value, as
\* URLSearchParams does it in url.toString(), on the strings of the model
FormEncode(s) ==
    CASE s = "a b" -> "a+b"
      [] s = "a&b" -> "a%26b"
      [] OTHER -> s

\* new URL(`${API_BASE_URL}${path}`): the href up to the query, and the list
\* of searchParams
NewURL(path) == [href |-> API_BASE_URL \o path, searchParams |-> <<>>]

\* url.searchParams.append(key, value)
SearchParamsAppend(url, key, value) ==
    [url EXCEPT !.searchParams = Append(@, [key |-> key, value |-> value])]

\* Object.entries(params).forEach(([key, value]) => { if (value !== undefined)
\*     url.searchParams.append(key, String(value)) })
\* params is the list of the object's entries, in insertion order
RECURSIVE AppendDefined(_, _)
AppendDefined(url, entries) ==
    IF entries = <<>> THEN url
    ELSE LET e == Head(entries)
             next == IF e.value # Undef
                     THEN SearchParamsAppend(url, e.key, String(e.value))
                     ELSE url
         IN AppendDefined(next, Tail(entries))

\* the mutant: the loop without its `value !== undefined` test
RECURSIVE AppendAll(_, _)
AppendAll(url, entries) ==
    IF entries = <<>> THEN url
    ELSE LET e == Head(entries)
         IN AppendAll(SearchParamsAppend(url, e.key, String(e.value)), Tail(entries))

\* url.toString(): the query is serialised pair by pair, each side encoded
URLToString(url) ==
    [href |-> url.href,
     query |-> [i \in 1..Len(url.searchParams) |->
                  [key |-> FormEncode(url.searchParams[i].key),
                   value |-> FormEncode(url.searchParams[i].value)]]]

\* `params` absent is modelled as the empty list: both skip the loop's effect
buildUrl_NoUndefinedTest(path, params) == URLToString(AppendAll(NewURL(path), params))

buildUrl(path, params) == URLToString(AppendDefined(NewURL(path), params))

serverUrl(path, params) == URLToString(AppendDefined(NewURL(path), params))

\* the text `key=value` of one pair of a built URL
PairText(p) == p.key \o "=" \o p.value

(***************************************************************************)
(* Bounds and input sets of the URL builder harness.                       *)
(***************************************************************************)
MaxParams == 2

ParamKeys == {"page", "search", "active_only"}
ParamValues == {Num(1), Str("a b"), Str(""), Bool(TRUE), Undef}
Paths == {"/api/v1/clients", "/api/v1/clients/1"}

\* the entry lists of the objects with at most MaxParams keys: keys distinct
ParamEntry == [key : ParamKeys, value : ParamValues]
ParamLists ==
    UNION {{p \in [1..k -> ParamEntry] :
              \A i, j \in 1..k : i # j => p[i].key # p[j].key} : k \in 0..MaxParams}

NoUrl == [href |-> "", query |-> <<>>]
NoUrlIn == [kind |-> "none", path |-> "", params |-> <<>>]

(***************************************************************************)
(* Decoded JSON documents.  A document is an object with the properties    *)
(* the layer or the schemas read (an absent property is Undef), the JSON   *)
(* value null, or `undefined` (what a call returns for "no content").      *)
(***************************************************************************)
ObjDoc(detail, message, id, extra) ==
    [t |-> "object", detail |-> detail, message |-> message, id |-> id, extra |-> extra]
NullDoc == [t |-> "null", detail |-> Undef, message |-> Undef, id |-> Undef, extra |-> Undef]
UndefinedDoc ==
    [t |-> "undefined", detail |-> Undef, message |-> Undef, id |-> Undef, extra |-> Undef]
EmptyObj == ObjDoc(Undef, Undef, Undef, Undef)

\* The body texts a backend answers with.  Each name stands for the text
\* it spells, with ' for the JSON double quote.
HtmlBody == "<html>error page</html>"
EmptyBody == ""
ErrorBodies ==
    {HtmlBody, "null", "{}", "{'detail':'Client not found'}", "{'message':'m'}",
     "{'detail':'d','message':'m'}", "{'detail':'','message':'m'}",
     "{'detail':null,'message':'m'}", "{'detail':[{}],'message':'m'}"}
SuccessBodies ==
    {HtmlBody, "null", "{'id':1}", "{'id':'1'}", "{'id':1,'extra':0}", "{'id':'x'}"}
NoContentBodies == {EmptyBody, "{'id':1}"}

\* response.json(): ok = FALSE is a rejection with a SyntaxError
JsonParse(text) ==
    CASE text = "null" -> [ok |-> TRUE, doc |-> NullDoc]
      [] text = "{}" -> [ok |-> TRUE, doc |-> EmptyObj]
      [] text = "{'detail':'Client not found'}" ->
            [ok |-> TRUE, doc |-> ObjDoc(Str("Client not found"), Undef, Undef, Undef)]
      [] text = "{'message':'m'}" ->
            [ok |-> TRUE, doc |-> ObjDoc(Undef, Str("m"), Undef, Undef)]
      [] text = "{'detail':'d','message':'m'}" ->
            [ok |-> TRUE, doc |-> ObjDoc(Str("d"), Str("m"), Undef, Undef)]
      [] text = "{'detail':'','message':'m'}" ->
            [ok |-> TRUE, doc |-> ObjDoc(Str(""), Str("m"), Undef, Undef)]
      [] text = "{'detail':null,'message':'m'}" ->
            [ok |-> TRUE, doc |-> ObjDoc(Null, Str("m"), Undef, Undef)]
      [] text = "{'detail':[{}],'message':'m'}" ->
            [ok |-> TRUE, doc |-> ObjDoc(Obj, Str("m"), Undef, Undef)]
      [] text = "{'id':1}" -> [ok |-> TRUE, doc |-> ObjDoc(Undef, Undef, Num(1), Undef)]
      [] text = "{'id':'1'}" -> [ok |-> TRUE, doc |-> ObjDoc(Undef, Undef, Str("1"), Undef)]
      [] text = "{'id':1,'extra':0}" ->
            [ok |-> TRUE, doc |-> ObjDoc(Undef, Undef, Num(1), Num(0))]
      [] text = "{'id':'x'}" -> [ok |-> TRUE, doc |-> ObjDoc(Undef, Undef, Str("x"), Undef)]
      [] OTHER -> [ok |-> FALSE, doc |-> UndefinedDoc]

(***************************************************************************)
(* HTTP responses.                                                         *)
(***************************************************************************)
StatusText(status) ==
    CASE status = 200 -> "OK"
      [] status = 204 -> "No Content"
      [] status = 299 -> ""
      [] status = 404 -> "Not Found"
      [] status = 500 -> "Internal Server Error"
      [] OTHER -> ""

Response(status, body) == [status |-> status, statusText |-> StatusText(status), body |-> body]
NoResponse == [status |-> 0, statusText |-> "", body |-> ""]

Responses ==
    {Response(st, b) : st \in {200, 299}, b \in SuccessBodies}
    \cup {Response(204, b) : b \in NoContentBodies}
    \cup {Response(st, b) : st \in {404, 500}, b \in ErrorBodies}

\* response.ok
ResponseOk(r) == r.status >= 200 /\ r.status <= 299

(***************************************************************************)
(* Schemas (zod).  IdSchema is z.object({ id: z.number() }), the shape of  *)
(* the response schemas of lib/schemas reduced to one field; CoerceSchema  *)
(* is z.object({ id: z.coerce.number() }).  Both strip unknown keys.       *)
(***************************************************************************)
NoSchema == "none"
Schemas == {NoSchema, "IdSchema", "CoerceSchema"}

\* Number(v), as z.coerce.number() applies it
ToNumber(v) ==
    CASE v.t = "number" -> v
      [] v.t = "string" /\ v.s = "1" -> Num(1)
      [] v.t = "string" /\ v.s = "" -> Num(0)
      [] v.t = "boolean" -> Num(v.n)
      [] v.t = "null" -> Num(0)
      [] OTHER -> NaN

ParseOk(data) == [success |-> TRUE, data |-> data, issues |-> <<>>]
ParseFail(issues) == [success |-> FALSE, data |-> UndefinedDoc, issues |-> issues]

\* schema.safeParse(data): the parsed output, or the issues' messages
SafeParse(schema, data) ==
    IF data.t # "object"
    THEN ParseFail(<<"Expected object, received " \o data.t>>)
    ELSE IF schema = "ListSchema"
    THEN CASE data.extra.t = "number" -> ParseOk(ObjDoc(Undef, Undef, Undef, data.extra))
           [] data.extra.t = "undefined" -> ParseFail(<<"Required">>)
           [] OTHER -> ParseFail(<<"Expected number, received " \o data.extra.t>>)
    ELSE LET id == IF schema = "CoerceSchema" THEN ToNumber(data.id) ELSE data.id
         IN CASE id.t = "number" -> ParseOk(ObjDoc(Undef, Undef, id, Undef))
              [] id.t = "undefined" -> ParseFail(<<"Required">>)
              [] id.t = "NaN" -> ParseFail(<<"Expected number, received nan">>)
              [] OTHER -> ParseFail(<<"Expected number, received " \o id.t>>)

\* issues.map((issue) => issue.message).join(', ')
RECURSIVE JoinIssues(_)
JoinIssues(issues) ==
    IF issues = <<>> THEN ""
    ELSE IF Len(issues) = 1 THEN Head(issues)
    ELSE Head(issues) \o ", " \o JoinIssues(Tail(issues))

(***************************************************************************)
(* Errors.  status = NoStatus: the error object has no status property.    *)
(***************************************************************************)
NoStatus == -1
ErrorOf(cls, message) ==
    [cls |-> cls, message |-> message, status |-> NoStatus, detail |-> Undef]
NoError == ErrorOf("none", "")

\* new ApiClientError(message, status, detail): Error stores String(message)
ApiClientError(message, status, detail) ==
    [cls |-> "ApiClientError", message |-> String(message), status |-> status,
     detail |-> detail]

\* new Error(message)
PlainError(message) == ErrorOf("Error", String(message))

\* a || b  and  a ?? b
JsOr(a, b) == IF Truthy(a) THEN a ELSE b
JsCoalesce(a, b) == IF Nullish(a) THEN b ELSE a

(***************************************************************************)
(* Headers, token getters, requests.                                       *)
(***************************************************************************)
HeaderNames == {"Content-Type", "Authorization"}
Absent == "<absent>"
NoHeaders == [h \in HeaderNames |-> Absent]

\* { ...a, ...b }: b's entries win
Spread(a, b) == [h \in HeaderNames |-> IF b[h] # Absent THEN b[h] ELSE a[h]]

JsonContentType == [NoHeaders EXCEPT !["Content-Type"] = "application/json"]

\* The token getters an auth provider can install; DefaultGetter is the
\* initial `async () => null`.
DefaultGetter == "async () => null"
\* setTokenGetter was never called
NotInstalled == "not installed"
Getters == {DefaultGetter, "async () => 'tok'", "async () => ''", "async () => { throw }"}

\* the settlement of the promise getter() returns
Resolved(v) == [ok |-> TRUE, value |-> v]
Rejected == [ok |-> FALSE, value |-> Undef]
InvokeGetter(g) ==
    CASE g = DefaultGetter -> Resolved(Null)
      [] g = "async () => 'tok'" -> Resolved(Str("tok"))
      [] g = "async () => ''" -> Resolved(Str(""))
      [] OTHER -> Rejected

\* lib/auth0.ts getAccessToken(): what auth0.getAccessToken() gives is the
\* session's: a token, a result without token, or a throw (not configured)
Auth0Results == {"token", "no token", "throws"}
Auth0GetAccessToken(tokenResult) ==
    IF tokenResult = "token" THEN Resolved(Str("srv-tok")) ELSE Rejected

NoRequest == [url |-> NoUrl, method |-> "", headers |-> NoHeaders, body |-> Absent]

\* JSON.stringify(body), on the bodies of the model
JsonStringify(body) ==
    CASE body.t = "object" -> "{'name':'Acme'}"
      [] body.t = "string" -> "'" \o body.s \o "'"
      [] OTHER -> String(body)

\* body ? JSON.stringify(body) : undefined
RequestBody(body) == IF Truthy(body) THEN JsonStringify(body) ELSE Absent

(***************************************************************************)
(* One invocation of fetchApi or serverFetch.                              *)
(***************************************************************************)
Pending == [t |-> "pending", value |-> UndefinedDoc, error |-> NoError]
Returned(v) == [t |-> "returned", value |-> v, error |-> NoError]
Threw(e) == [t |-> "threw", value |-> UndefinedDoc, error |-> e]

IdleCall ==
    [kind |-> "none", pc |-> "idle",
     method |-> "", path |-> "", skipAuth |-> FALSE, headers |-> NoHeaders,
     params |-> <<>>, body |-> Undef, schema |-> NoSchema,
     requestHeaders |-> NoHeaders,  \* fetchApi's local requestHeaders
     getterCalled |-> FALSE,        \* the token getter was invoked
     token |-> Resolved(Null),      \* settlement of the awaited token promise
     request |-> NoRequest,         \* what fetch() was called with
     fetchCalls |-> 0,              \* calls of fetch()
     rejection |-> NoError,         \* what fetch() rejected with, if it did
     response |-> NoResponse,
     jsonCalls |-> 0,               \* calls of response.json()
     schemaCalls |-> 0,             \* calls of schema.safeParse / schema.parse
     outcome |-> Pending]

\* the rejections of fetch(): no response was obtained (network down), or
\* the environment cancelled the request
TransportFailure == ErrorOf("TypeError", "fetch failed")
AbortFailure == ErrorOf("AbortError", "The operation was aborted")
TransportFailures == {TransportFailure, AbortFailure}
\* the rejection of the installed getter
GetterFailure == ErrorOf("Error", "token getter failed")
\* the rejection of response.json() on a body that is not JSON
JsonSyntaxError == ErrorOf("SyntaxError", "Unexpected token < in JSON")
\* reading a property of null
NullPropertyError == ErrorOf("TypeError", "Cannot read properties of null")

\* ---------------------------------------------------------------- fetchApi

\* fetch(buildUrl(path, params), { method, headers, body: ... })
fetchApiSend(call, headers) ==
    [call EXCEPT !.pc = "awaitFetch",
                 !.requestHeaders = headers,
                 !.fetchCalls = @ + 1,
                 !.request = [url |-> buildUrl(call.path, call.params),
                              method |-> call.method,
                              headers |-> headers,
                              body |-> RequestBody(call.body)]]

\* fetchApi asking for the token whatever skipAuth says
fetchApiBegin_IgnoresSkipAuth(getter, d) ==
    LET call == [IdleCall EXCEPT !.kind = "fetchApi", !.method = d.method,
                                 !.path = d.path, !.skipAuth = d.skipAuth,
                                 !.headers = d.headers, !.params = d.params,
                                 !.body = d.body, !.schema = d.schema]
    IN [call EXCEPT !.pc = "awaitToken",
                    !.requestHeaders = Spread(JsonContentType, d.headers),
                    !.getterCalled = TRUE, !.token = InvokeGetter(getter)]

\* lines 133-154 up to the first await that suspends
fetchApiBegin(getter, d) ==
    LET call == [IdleCall EXCEPT !.kind = "fetchApi", !.method = d.method,
                                 !.path = d.path, !.skipAuth = d.skipAuth,
                                 !.headers = d.headers, !.params = d.params,
                                 !.body = d.body, !.schema = d.schema]
        requestHeaders == Spread(JsonContentType, d.headers)
    IN IF ~d.skipAuth
       THEN [call EXCEPT !.pc = "awaitToken", !.requestHeaders = requestHeaders,
                         !.getterCalled = TRUE, !.token = InvokeGetter(getter)]
       ELSE fetchApiSend(call, requestHeaders)

\* lines 143-154: the token promise settled
fetchApiWithToken(call) ==
    IF ~call.token.ok
    THEN [call EXCEPT !.pc = "done", !.outcome = Threw(GetterFailure)]
    ELSE IF Truthy(call.token.value)
    THEN fetchApiSend(call, [call.requestHeaders EXCEPT
                               !["Authorization"] = "Bearer " \o String(call.token.value)])
    ELSE fetchApiSend(call, call.requestHeaders)

\* fetchApi without its `response.status === 204` return
fetchApiOnResponse_No204(call, r) ==
    IF ~ResponseOk(r)
    THEN [call EXCEPT !.response = r, !.pc = "awaitErrorBody", !.jsonCalls = @ + 1]
    ELSE [call EXCEPT !.response = r, !.pc = "awaitBody", !.jsonCalls = @ + 1]

\* fetchApi issuing the request a second time after a non-2xx response
fetchApiOnResponse_RetriesOnce(call, r) ==
    IF ~ResponseOk(r) /\ call.fetchCalls < 2
    THEN [call EXCEPT !.fetchCalls = @ + 1]
    ELSE IF ~ResponseOk(r)
    THEN [call EXCEPT !.response = r, !.pc = "awaitErrorBody", !.jsonCalls = @ + 1]
    ELSE IF r.status = 204
    THEN [call EXCEPT !.response = r, !.pc = "done", !.outcome = Returned(UndefinedDoc)]
    ELSE [call EXCEPT !.response = r, !.pc = "awaitBody", !.jsonCalls = @ + 1]

\* lines 157-178: the response arrived; up to the next await
fetchApiOnResponse(call, r) ==
    IF ~ResponseOk(r)
    THEN [call EXCEPT !.response = r, !.pc = "awaitErrorBody", !.jsonCalls = @ + 1]
    ELSE IF r.status = 204
    THEN [call EXCEPT !.response = r, !.pc = "done", !.outcome = Returned(UndefinedDoc)]
    ELSE [call EXCEPT !.response = r, !.pc = "awaitBody", !.jsonCalls = @ + 1]

\* fetchApi turning a rejection of fetch into an ApiClientError
fetchApiOnReject_Wrapped(call, e) ==
    [call EXCEPT !.pc = "done", !.rejection = e,
                 !.outcome = Threw(ApiClientError(Str(e.message), 0, Undef))]

\* line 150: `await fetch(...)` rejects with e; nothing catches it
fetchApiOnReject(call, e) ==
    [call EXCEPT !.pc = "done", !.rejection = e, !.outcome = Threw(e)]

\* lines 158-169: the error thrown for a non-2xx response, the body read
fetchApiError(r) ==
    LET fallback == Str("API Error: " \o r.statusText)
        parsed == JsonParse(r.body)
        errorBody == parsed.doc
        \* a body that is not JSON rejects, reading a property of null
        \* throws: the catch leaves both variables as initialised
        caught == ~parsed.ok \/ errorBody.t = "null"
        errorMessage == IF caught THEN fallback
                        ELSE JsOr(JsOr(errorBody.detail, errorBody.message), fallback)
        errorDetail == IF ~caught /\ errorBody.detail.t = "string"
                       THEN errorBody.detail ELSE Undef
    IN ApiClientError(errorMessage, r.status, errorDetail)

fetchApiOnErrorBody(call) ==
    [call EXCEPT !.pc = "done", !.outcome = Threw(fetchApiError(call.response))]

\* fetchApi validating, then returning `data` instead of `result.data`
fetchApiValidate_ReturnsRaw(schema, data) ==
    IF schema # NoSchema
    THEN LET result == SafeParse(schema, data)
         IN IF ~result.success
            THEN Threw(ApiClientError(Str("Invalid API response format"), 500,
                         Str("Validation errors: " \o JoinIssues(result.issues))))
            ELSE Returned(data)
    ELSE Returned(data)

\* lines 181-194: the decoded body against the schema
fetchApiValidate(schema, data) ==
    IF schema # NoSchema
    THEN LET result == SafeParse(schema, data)
         IN IF ~result.success
            THEN Threw(ApiClientError(Str("Invalid API response format"), 500,
                         Str("Validation errors: " \o JoinIssues(result.issues))))
            ELSE Returned(result.data)
    ELSE Returned(data)

\* lines 178-194: response.json() settled
fetchApiOnBody(call) ==
    LET parsed == JsonParse(call.response.body)
    IN IF ~parsed.ok
       THEN [call EXCEPT !.pc = "done", !.outcome = Threw(JsonSyntaxError)]
       ELSE [call EXCEPT !.pc = "done",
                         !.schemaCalls = IF call.schema # NoSchema THEN @ + 1 ELSE @,
                         !.outcome = fetchApiValidate(call.schema, parsed.doc)]

\* ------------------------------------------------------------- serverFetch

\* lines 58-63: up to `await getAccessToken()`
serverFetchBegin(tokenResult, d) ==
    [IdleCall EXCEPT !.kind = "serverFetch", !.method = d.method, !.path = d.path,
                     !.params = d.params, !.body = d.body, !.schema = d.schema,
                     !.pc = "awaitToken", !.getterCalled = TRUE,
                     !.token = Auth0GetAccessToken(tokenResult)]

\* lines 61-88: the token promise settled; the request is built and sent
serverFetchWithToken(call) ==
    LET token == IF call.token.ok THEN call.token.value ELSE Null
        headers == [NoHeaders EXCEPT !["Content-Type"] = "application/json",
                                     !["Authorization"] = "Bearer " \o String(token)]
    IN [call EXCEPT !.pc = "awaitFetch",
                    !.requestHeaders = headers,
                    !.fetchCalls = @ + 1,
                    !.request = [url |-> serverUrl(call.path, call.params),
                                 method |-> call.method,
                                 headers |-> headers,
                                 body |-> RequestBody(call.body)]]

\* lines 91-104: the response arrived; up to the next await
serverFetchOnResponse(call, r) ==
    IF ~ResponseOk(r)
    THEN [call EXCEPT !.response = r, !.pc = "awaitErrorBody", !.jsonCalls = @ + 1]
    ELSE IF r.status = 204
    THEN [call EXCEPT !.response = r, !.pc = "done", !.outcome = Returned(UndefinedDoc)]
    ELSE [call EXCEPT !.response = r, !.pc = "awaitBody", !.jsonCalls = @ + 1]

\* line 79: `await fetch(...)` rejects with e; nothing catches it
serverFetchOnReject(call, e) ==
    [call EXCEPT !.pc = "done", !.rejection = e, !.outcome = Threw(e)]

\* lines 92-95: the error thrown for a non-2xx response, the body read
serverFetchError(r) ==
    LET parsed == JsonParse(r.body)
        \* response.json().catch(() => ({}))
        errorBody == IF parsed.ok THEN parsed.doc ELSE EmptyObj
    IN IF errorBody.t = "null"
       THEN NullPropertyError
       ELSE PlainError(JsCoalesce(JsCoalesce(errorBody.detail, errorBody.message),
                                  Str("API Error: " \o ToString(r.status))))

serverFetchOnErrorBody(call) ==
    [call EXCEPT !.pc = "done", !.outcome = Threw(serverFetchError(call.response))]

\* lines 106-110: schema.parse(data) returns the output or throws a ZodError
serverFetchValidate(schema, data) ==
    IF schema # NoSchema
    THEN LET result == SafeParse(schema, data)
         IN IF ~result.success
            THEN Threw(ErrorOf("ZodError", JoinIssues(result.issues)))
            ELSE Returned(result.data)
    ELSE Returned(data)

\* lines 104-110: response.json() settled
serverFetchOnBody(call) ==
    LET parsed == JsonParse(call.response.body)
    IN IF ~parsed.ok
       THEN [call EXCEPT !.pc = "done", !.outcome = Threw(JsonSyntaxError)]
       ELSE [call EXCEPT !.pc = "done",
                         !.schemaCalls = IF call.schema # NoSchema THEN @ + 1 ELSE @,
                         !.outcome = serverFetchValidate(call.schema, parsed.doc)]

(***************************************************************************)
(* The inputs of the calls.                                                *)
(***************************************************************************)
CallIds == {"c1", "c2"}
\* the calls that run under Spec
MainCalls == {"c1"}

Methods == {"GET", "POST", "PATCH", "PUT", "DELETE"}
CallPaths == {"/api/v1/clients"}
CallerHeaders ==
    {NoHeaders,
     [NoHeaders EXCEPT !["Authorization"] = "Basic caller"],
     [NoHeaders EXCEPT !["Content-Type"] = "text/plain"]}
CallParams ==
    {<<>>, <<[key |-> "page", value |-> Num(1)], [key |-> "search", value |-> Undef]>>}
CallBodies == {Undef, Obj, Num(0)}

\* fetchApi(method, path, options)
ClientDescriptors ==
    [method : Methods, path : CallPaths, skipAuth : BOOLEAN, headers : CallerHeaders,
     params : CallParams, body : CallBodies, schema : Schemas]

\* serverFetch(path, options, schema)
ServerDescriptors ==
    [method : Methods, path : CallPaths, params : CallParams, body : CallBodies,
     schema : Schemas]

(***************************************************************************)
(* hooks/useAsync: the state of the hook and what execute() does to it.   *)
(***************************************************************************)
\* line 61: `{ immediate = false, resetOnExecute = false } = options`
DefaultOptions == [immediate |-> FALSE, resetOnExecute |-> FALSE]
UseAsyncOptions == [immediate : BOOLEAN, resetOnExecute : BOOLEAN]

\* UseAsyncState: data is null or a result, error is null or a message
AsyncState(data, loading, error) == [data |-> data, loading |-> loading, error |-> error]
\* useAsync starting idle whatever `immediate` is
InitialState_Idle(opts) == AsyncState(Null, FALSE, Null)

\* lines 63-67: the argument of useState
InitialState(opts) == AsyncState(Null, opts.immediate, Null)

\* what the promise of the async function settles with: a result, an Error
\* with a message, or a thrown value that is not an Error
Fulfilled(v) == [ok |-> TRUE, value |-> v, isError |-> FALSE, message |-> ""]
RejectedWith(isError, message) ==
    [ok |-> FALSE, value |-> Undef, isError |-> isError, message |-> message]
NotSettled == [ok |-> FALSE, value |-> Undef, isError |-> FALSE, message |-> "<pending>"]
AsyncResults == {Str("manual success"), Str("success")}
AsyncRejections ==
    {RejectedWith(TRUE, "Failed"), RejectedWith(TRUE, ""), RejectedWith(FALSE, "thrown string")}

\* the execute() calls: the one of the `immediate` timer and the user's
TimerExec == "timer"
UserExecs == {"e1", "e2"}
ExecIds == {TimerExec} \cup UserExecs
IdleExec == [pc |-> "idle", settlement |-> NotSettled, outcome |-> Pending]

\* lines 80-84: the setState at the start of execute
executeStart(prev, opts) ==
    IF opts.resetOnExecute
    THEN AsyncState(Null, TRUE, Null)
    ELSE [prev EXCEPT !.loading = TRUE, !.error = Null]

\* execute leaving loading set after the result arrived
executeOnResolve_KeepsLoading(prev, result) == [prev EXCEPT !.data = result, !.error = Null]

\* line 91: the setState after the async function resolved
executeOnResolve(prev, result) == AsyncState(result, FALSE, Null)

\* lines 96-97
ErrorMessage(err) == IF err.isError THEN err.message ELSE "An unexpected error occurred"

\* execute clearing the data when the async function rejects
executeOnReject_ClearsData(prev, err) == AsyncState(Null, FALSE, Str(ErrorMessage(err)))

\* lines 100-104: the setState after the async function rejected
executeOnReject(prev, err) ==
    [prev EXCEPT !.loading = FALSE, !.error = Str(ErrorMessage(err))]

\* the hook as first rendered with opts: effects not yet run
InitHook(opts) ==
    /\ options = opts
    /\ state = InitialState(opts)
    /\ mountedRef = TRUE
    /\ phase = "rendered"
    /\ timer = "none"
    /\ execs = [e \in ExecIds |-> IdleExec]
    /\ lateUpdates = {}

(***************************************************************************)
(* middleware.ts: the response to a request, by its pathname.              *)
(***************************************************************************)
\* line 13
PROTECTED_ROUTES == {"/dashboard", "/clients", "/metrics", "/settings"}
LoginRoute == "/auth/login"

\* String.prototype.startsWith
StartsWith(str, prefix) ==
    Len(str) >= Len(prefix) /\ SubSeq(str, 1, Len(prefix)) = prefix

\* the responses: NextResponse.next(), NextResponse.redirect(url) with the
\* pathname and the returnTo parameter of url, what auth0.middleware gives
MwNext == [kind |-> "next", to |-> "", returnTo |-> Absent]
MwRedirect(to, returnTo) == [kind |-> "redirect", to |-> to, returnTo |-> returnTo]
MwAuth0 == [kind |-> "auth0.middleware", to |-> "", returnTo |-> Absent]
MwPending == [kind |-> "pending", to |-> "", returnTo |-> Absent]

\* auth0.getSession(request): a session, null, or a rejection
SessionResults == {"session", "null", "throws"}
Pathnames ==
    {"/", "/about", "/api/health", "/auth", "/auth/login", "/auth/callback",
     "/authors", "/dashboard", "/dashboard/clients", "/clients/1", "/metrics",
     "/settings", "/settings-help"}

\* lines 16-43: up to a return or to `await auth0.getSession(request)`
middlewareBegin(request) ==
    IF ~request.configured
    THEN [request EXCEPT !.pc = "done", !.response = MwNext]
    ELSE IF StartsWith(request.pathname, "/auth")
    THEN [request EXCEPT !.pc = "done", !.response = MwAuth0]
    ELSE IF \E route \in PROTECTED_ROUTES : StartsWith(request.pathname, route)
    THEN [request EXCEPT !.pc = "awaitSession"]
    ELSE [request EXCEPT !.pc = "done", !.response = MwNext]

\* lines 43-60: getSession settled
middlewareOnSession(request) ==
    CASE request.session = "throws" ->
            [request EXCEPT !.pc = "done", !.response = MwRedirect(LoginRoute, Absent)]
      [] request.session = "null" ->
            [request EXCEPT !.pc = "done",
                            !.response = MwRedirect(LoginRoute, request.pathname)]
      [] OTHER -> [request EXCEPT !.pc = "done", !.response = MwNext]

MwRequest(configured, pathname, session) ==
    [pc |-> "received", configured |-> configured, pathname |-> pathname,
     session |-> session, response |-> MwPending]
NoMwRequest == MwRequest(FALSE, "", "null")

(***************************************************************************)
(* lib/api/clients.ts and serverApi.clients: the service wrappers.         *)
(***************************************************************************)
BASE_PATH == "/api/v1/clients"
WrapperOps == {"list", "get", "create", "update", "delete"}
ClientResponseSchema == "IdSchema"
ClientListResponseSchema == "ListSchema"

\* the arguments of a wrapper call: (params) for list, (id) for get and
\* delete, (data) for create, (id, data) for update
WrapperArgs(id, params, data) == [id |-> id, params |-> params, data |-> data]
\* `${BASE_PATH}/${id}`
ClientPath(id) == BASE_PATH \o "/" \o String(id)

\* serverApi.clients updating with PUT
serverApiClients_UpdateWithPut(op, args) ==
    CASE op = "list" ->
            [method |-> "GET", path |-> BASE_PATH, params |-> args.params,
             body |-> Undef, schema |-> ClientListResponseSchema]
      [] op = "get" ->
            [method |-> "GET", path |-> ClientPath(args.id), params |-> <<>>,
             body |-> Undef, schema |-> ClientResponseSchema]
      [] op = "create" ->
            [method |-> "POST", path |-> BASE_PATH, params |-> <<>>,
             body |-> args.data, schema |-> ClientResponseSchema]
      [] op = "update" ->
            [method |-> "PUT", path |-> ClientPath(args.id), params |-> <<>>,
             body |-> args.data, schema |-> ClientResponseSchema]
      [] OTHER ->
            [method |-> "DELETE", path |-> ClientPath(args.id), params |-> <<>>,
             body |-> Undef, schema |-> NoSchema]

\* server.ts lines 124-148: the arguments serverFetch is called with
serverApiClients(op, args) ==
    CASE op = "list" ->
            [method |-> "GET", path |-> BASE_PATH, params |-> args.params,
             body |-> Undef, schema |-> ClientListResponseSchema]
      [] op = "get" ->
            [method |-> "GET", path |-> ClientPath(args.id), params |-> <<>>,
             body |-> Undef, schema |-> ClientResponseSchema]
      [] op = "create" ->
            [method |-> "POST", path |-> BASE_PATH, params |-> <<>>,
             body |-> args.data, schema |-> ClientResponseSchema]
      [] op = "update" ->
            [method |-> "PATCH", path |-> ClientPath(args.id), params |-> <<>>,
             body |-> args.data, schema |-> ClientResponseSchema]
      [] OTHER ->
            [method |-> "DELETE", path |-> ClientPath(args.id), params |-> <<>>,
             body |-> Undef, schema |-> NoSchema]

\* clients.ts lines 40-100 through api.get/post/patch/delete: the arguments
\* fetchApi is called with
clientService(op, args) ==
    LET opts(params, body, schema) ==
            [skipAuth |-> FALSE, headers |-> NoHeaders, params |-> params,
             body |-> body, schema |-> schema]
        call(method, path, o) ==
            [method |-> method, path |-> path, skipAuth |-> o.skipAuth,
             headers |-> o.headers, params |-> o.params, body |-> o.body,
             schema |-> o.schema]
    IN CASE op = "list" ->
               call("GET", BASE_PATH, opts(args.params, Undef, ClientListResponseSchema))
         [] op = "get" ->
               call("GET", ClientPath(args.id), opts(<<>>, Undef, ClientResponseSchema))
         [] op = "create" ->
               call("POST", BASE_PATH, opts(<<>>, args.data, ClientResponseSchema))
         [] op = "update" ->
               call("PATCH", ClientPath(args.id),
                    opts(<<>>, args.data, ClientResponseSchema))
         [] OTHER ->
               call("DELETE", ClientPath(args.id), opts(<<>>, Undef, NoSchema))

WrapCall(op, args, response) ==
    [op |-> op, args |-> args, response |-> response]
NoWrap == WrapCall("none", WrapperArgs(Num(0), <<>>, Undef), NoResponse)

(***************************************************************************)
(* app/actions: createClientAction.                                       *)
(***************************************************************************)
\* the `data` a form hands to the action: not an object, or an object with
\* these properties
FormData(name, slug, active) == [t |-> "object", name |-> name, slug |-> slug, active |-> active]
NotFormData == [t |-> "null", name |-> Undef, slug |-> Undef, active |-> Undef]
ActionInputs ==
    {NotFormData}
    \cup {FormData(name, slug, active) :
            name \in {Undef, Str(""), Str("Acme")},
            slug \in {Undef, Null, Str("acme-corp"), Str("Bad Slug")},
            active \in {Undef, Bool(TRUE), Str("on")}}

\* /^[a-z0-9-]+$/ on the slugs of the model
SlugRegex(str) ==
    CASE str = "acme-corp" -> TRUE
      [] OTHER -> FALSE

\* schemas/client.ts lines 18-22 and 38-41: the fields with an issue
FieldErrors(data) ==
    {f \in {"name", "slug", "active"} :
        CASE f = "name" -> ~(data.name.t = "string" /\ Len(data.name.s) >= 1)
          [] f = "slug" -> ~(\/ Nullish(data.slug)
                             \/ data.slug.t = "string" /\ SlugRegex(data.slug.s))
          [] OTHER -> data.active.t # "boolean"}

\* ClientCreateSchema.safeParse(data)
ClientCreateParse(data) ==
    [success |-> data.t = "object" /\ FieldErrors(data) = {},
     fieldErrors |-> IF data.t = "object" THEN FieldErrors(data) ELSE {}]

\* what the action returns: `errors` is there only after a failed validation
ActionResult(hasErrors, errors, message) ==
    [success |-> FALSE, hasErrors |-> hasErrors, errors |-> errors, message |-> message]
NoActionResult == ActionResult(FALSE, {}, "")
ActionPending == [t |-> "pending", value |-> NoActionResult, error |-> ""]
ActionReturned(v) == [t |-> "returned", value |-> v, error |-> ""]
ActionThrew(e) == [t |-> "threw", value |-> NoActionResult, error |-> e]
\* the error redirect() throws
NEXT_REDIRECT == "NEXT_REDIRECT"

ActionCall(data) ==
    [pc |-> "idle", data |-> data, effects |-> <<>>, outcome |-> ActionPending]
NoActionCall == ActionCall(NotFormData)

\* createClientAction calling the backend without validating
createClientActionBegin_NoValidation(act) == [act EXCEPT !.pc = "awaitCreate"]

\* lines 17-30: up to `await serverApi.clients.create(parsed.data)`
createClientActionBegin(act) ==
    LET parsed == ClientCreateParse(act.data)
    IN IF ~parsed.success
       THEN [act EXCEPT !.pc = "done",
                        !.outcome = ActionReturned(ActionResult(TRUE, parsed.fieldErrors,
                                       "Validation failed. Please check the form."))]
       ELSE [act EXCEPT !.pc = "awaitCreate"]

\* createClientAction with the redirect inside its try block
createClientActionResume_RedirectInTry(act, created) ==
    IF created.t = "threw"
    THEN [act EXCEPT !.pc = "done",
                     !.outcome = ActionReturned(ActionResult(FALSE, {},
                                    IF created.error.message # ""
                                    THEN created.error.message
                                    ELSE "Failed to create client. Please try again."))]
    ELSE [act EXCEPT !.pc = "done",
                     !.effects = <<"revalidatePath /dashboard/clients",
                                   "redirect /dashboard/clients">>,
                     !.outcome = ActionReturned(ActionResult(FALSE, {}, NEXT_REDIRECT))]

\* lines 30-43: serverApi.clients.create settled with `created`
createClientActionResume(act, created) ==
    IF created.t = "threw"
    THEN [act EXCEPT !.pc = "done",
                     !.outcome = ActionReturned(ActionResult(FALSE, {},
                                    IF created.error.message # ""
                                    THEN created.error.message
                                    ELSE "Failed to create client. Please try again."))]
    ELSE [act EXCEPT !.pc = "done",
                     !.effects = <<"revalidatePath /dashboard/clients",
                                   "redirect /dashboard/clients">>,
                     !.outcome = ActionThrew(NEXT_REDIRECT)]

\* no request to the middleware, no server action, no wrapper call
InitApp ==
    /\ mw = NoMwRequest
    /\ serverAction = NoActionCall
    /\ wrap = NoWrap

(***************************************************************************)
(* Actions.                                                                *)
(***************************************************************************)
Step(c, call) ==
    /\ calls' = [calls EXCEPT ![c] = call]
    /\ UNCHANGED <<getAccessToken, installed, urlVars, hookVars, appVars>>

\* setTokenGetter keeping the first getter installed
SetTokenGetter_KeepsFirst(g) ==
    /\ getAccessToken' = IF installed = NotInstalled THEN g ELSE getAccessToken
    /\ installed' = g
    /\ UNCHANGED <<calls, urlVars, hookVars, appVars>>

\* setTokenGetter(getter)
SetTokenGetter(g) ==
    /\ getAccessToken' = g
    /\ installed' = g
    /\ UNCHANGED <<calls, urlVars, hookVars, appVars>>

FetchApiCall(c) ==
    /\ calls[c].pc = "idle"
    /\ \E d \in ClientDescriptors : Step(c, fetchApiBegin(getAccessToken, d))

\* fetchApi dropping a token getter that threw
FetchApiTokenSettled_ResetsGetter(c) ==
    /\ calls[c].kind = "fetchApi" /\ calls[c].pc = "awaitToken"
    /\ calls' = [calls EXCEPT ![c] = fetchApiWithToken(calls[c])]
    /\ getAccessToken' = IF calls[c].token.ok THEN getAccessToken ELSE DefaultGetter
    /\ UNCHANGED <<installed, urlVars, hookVars, appVars>>

FetchApiTokenSettled(c) ==
    /\ calls[c].kind = "fetchApi" /\ calls[c].pc = "awaitToken"
    /\ Step(c, fetchApiWithToken(calls[c]))

\* fetchApi sharing one response among the identical requests in flight
FetchApiResponse_Shared(c) ==
    /\ calls[c].kind = "fetchApi" /\ calls[c].pc = "awaitFetch"
    /\ \E r \in Responses :
          calls' = [o \in CallIds |->
                      IF /\ calls[o].kind = "fetchApi" /\ calls[o].pc = "awaitFetch"
                         /\ calls[o].request = calls[c].request
                      THEN fetchApiOnResponse(calls[o], r)
                      ELSE calls[o]]
    /\ UNCHANGED <<getAccessToken, installed, urlVars, hookVars, appVars>>

FetchApiResponse(c) ==
    /\ calls[c].kind = "fetchApi" /\ calls[c].pc = "awaitFetch"
    /\ \E r \in Responses : Step(c, fetchApiOnResponse(calls[c], r))

FetchApiFetchRejected(c) ==
    /\ calls[c].kind = "fetchApi" /\ calls[c].pc = "awaitFetch"
    /\ \E e \in TransportFailures : Step(c, fetchApiOnReject(calls[c], e))

FetchApiErrorBody(c) ==
    /\ calls[c].kind = "fetchApi" /\ calls[c].pc = "awaitErrorBody"
    /\ Step(c, fetchApiOnErrorBody(calls[c]))

FetchApiBody(c) ==
    /\ calls[c].kind = "fetchApi" /\ calls[c].pc = "awaitBody"
    /\ Step(c, fetchApiOnBody(calls[c]))

ServerFetchCall(c) ==
    /\ calls[c].pc = "idle"
    /\ \E d \in ServerDescriptors, tokenResult \in Auth0Results :
          Step(c, serverFetchBegin(tokenResult, d))

ServerFetchTokenSettled(c) ==
    /\ calls[c].kind = "serverFetch" /\ calls[c].pc = "awaitToken"
    /\ Step(c, serverFetchWithToken(calls[c]))

ServerFetchResponse(c) ==
    /\ calls[c].kind = "serverFetch" /\ calls[c].pc = "awaitFetch"
    /\ \E r \in Responses : Step(c, serverFetchOnResponse(calls[c], r))

ServerFetchFetchRejected(c) ==
    /\ calls[c].kind = "serverFetch" /\ calls[c].pc = "awaitFetch"
    /\ \E e \in TransportFailures : Step(c, serverFetchOnReject(calls[c], e))

ServerFetchErrorBody(c) ==
    /\ calls[c].kind = "serverFetch" /\ calls[c].pc = "awaitErrorBody"
    /\ Step(c, serverFetchOnErrorBody(calls[c]))

ServerFetchBody(c) ==
    /\ calls[c].kind = "serverFetch" /\ calls[c].pc = "awaitBody"
    /\ Step(c, serverFetchOnBody(calls[c]))

Init ==
    /\ getAccessToken = DefaultGetter
    /\ installed = NotInstalled
    /\ calls = [c \in CallIds |-> IdleCall]
    /\ urlIn = NoUrlIn
    /\ urlOut = NoUrl
    /\ InitHook(DefaultOptions)
    /\ InitApp

Next ==
    \/ \E g \in Getters : SetTokenGetter(g)
    \/ \E c \in MainCalls : FetchApiCall(c)
    \/ \E c \in MainCalls : FetchApiTokenSettled(c)
    \/ \E c \in MainCalls : FetchApiResponse(c)
    \/ \E c \in MainCalls : FetchApiFetchRejected(c)
    \/ \E c \in MainCalls : FetchApiErrorBody(c)
    \/ \E c \in MainCalls : FetchApiBody(c)
    \/ \E c \in MainCalls : ServerFetchCall(c)
    \/ \E c \in MainCalls : ServerFetchTokenSettled(c)
    \/ \E c \in MainCalls : ServerFetchResponse(c)
    \/ \E c \in MainCalls : ServerFetchFetchRejected(c)
    \/ \E c \in MainCalls : ServerFetchErrorBody(c)
    \/ \E c \in MainCalls : ServerFetchBody(c)

Spec == Init /\ [][Next]_vars

(***************************************************************************)
(* Two callers of the same endpoint with the same arguments, free to       *)
(* overlap: the second caller starts at any time, before or after the      *)
(* first one has ended, and every continuation of either is scheduled in   *)
(* any order.                                                              *)
(***************************************************************************)
ConcClientDescriptors ==
    [method : {"GET"}, path : CallPaths, skipAuth : {FALSE}, headers : {NoHeaders},
     params : {<<[key |-> "page", value |-> Num(1)]>>}, body : {Undef},
     schema : {NoSchema, "IdSchema"}]
ConcServerDescriptors ==
    [method : {"GET"}, path : CallPaths,
     params : {<<[key |-> "page", value |-> Num(1)]>>}, body : {Undef},
     schema : {NoSchema, "IdSchema"}]

\* the arguments an invocation was made with
DescriptorOf(call) ==
    [method |-> call.method, path |-> call.path, params |-> call.params,
     body |-> call.body, schema |-> call.schema]

\* the invocations made so far were of this function with these arguments
SameCall(kind, d) ==
    \A o \in CallIds :
        calls[o].kind # "none" =>
            /\ calls[o].kind = kind
            /\ DescriptorOf(calls[o]) = [k \in DOMAIN DescriptorOf(calls[o]) |-> d[k]]

ConcFetchApiCall(c) ==
    /\ calls[c].pc = "idle"
    /\ \E d \in ConcClientDescriptors :
          /\ SameCall("fetchApi", d)
          /\ Step(c, fetchApiBegin(getAccessToken, d))

ConcServerFetchCall(c) ==
    /\ calls[c].pc = "idle"
    /\ \E d \in ConcServerDescriptors, tokenResult \in Auth0Results :
          /\ SameCall("serverFetch", d)
          /\ Step(c, serverFetchBegin(tokenResult, d))

NextConc ==
    \/ \E g \in Getters : SetTokenGetter(g)
    \/ \E c \in CallIds : ConcFetchApiCall(c)
    \/ \E c \in CallIds : FetchApiTokenSettled(c)
    \/ \E c \in CallIds : FetchApiResponse(c)
    \/ \E c \in CallIds : FetchApiFetchRejected(c)
    \/ \E c \in CallIds : FetchApiErrorBody(c)
    \/ \E c \in CallIds : FetchApiBody(c)
    \/ \E c \in CallIds : ConcServerFetchCall(c)
    \/ \E c \in CallIds : ServerFetchTokenSettled(c)
    \/ \E c \in CallIds : ServerFetchResponse(c)
    \/ \E c \in CallIds : ServerFetchFetchRejected(c)
    \/ \E c \in CallIds : ServerFetchErrorBody(c)
    \/ \E c \in CallIds : ServerFetchBody(c)

SpecConc == Init /\ [][NextConc]_vars

(***************************************************************************)
(* The URL builders on their own: Init draws the path and the params       *)
(* object, one step builds the URL.                                        *)
(***************************************************************************)
InitUrl ==
    /\ getAccessToken = DefaultGetter
    /\ installed = NotInstalled
    /\ calls = [c \in CallIds |-> IdleCall]
    /\ urlIn \in [kind : {"buildUrl", "serverFetch"}, path : Paths, params : ParamLists]
    /\ urlOut = NoUrl
    /\ InitHook(DefaultOptions)
    /\ InitApp

BuildUrl ==
    /\ urlIn.kind = "buildUrl" /\ urlOut = NoUrl
    /\ urlOut' = buildUrl(urlIn.path, urlIn.params)
    /\ UNCHANGED <<fetchVars, urlIn, hookVars, appVars>>

ServerFetchBuildUrl ==
    /\ urlIn.kind = "serverFetch" /\ urlOut = NoUrl
    /\ urlOut' = serverUrl(urlIn.path, urlIn.params)
    /\ UNCHANGED <<fetchVars, urlIn, hookVars, appVars>>

NextUrl == BuildUrl \/ ServerFetchBuildUrl

SpecUrl == InitUrl /\ [][NextUrl]_vars

(***************************************************************************)
(* useAsync in a component: render, mount, execute() calls by the user     *)
(* and by the `immediate` timer, settlement of the async function in any   *)
(* order, reset, setData and unmount.                                      *)
(***************************************************************************)
\* setState(next) called by `by`: React drops an update of an unmounted
\* component
SetState(next, by) ==
    /\ state' = IF phase = "unmounted" THEN state ELSE next
    /\ lateUpdates' = IF phase = "unmounted" THEN lateUpdates \cup {by} ELSE lateUpdates

\* lines 122-138: the effects run after the first render
Mount ==
    /\ phase = "rendered"
    /\ phase' = "mounted"
    /\ timer' = IF options.immediate THEN "armed" ELSE timer
    /\ mountedRef' = TRUE
    /\ UNCHANGED <<fetchVars, urlVars, appVars, options, state, execs, lateUpdates>>

\* lines 79-88: execute() up to `await asyncFunctionRef.current(...args)`
executeCall(e) ==
    /\ execs[e].pc = "idle"
    /\ SetState(executeStart(state, options), "execute")
    /\ execs' = [execs EXCEPT ![e].pc = "pending"]

\* the user calls execute()
Execute(e) ==
    /\ e \in UserExecs
    /\ phase # "rendered"
    /\ executeCall(e)
    /\ UNCHANGED <<fetchVars, urlVars, appVars, options, mountedRef, phase, timer>>

\* lines 124-126: the timer of the `immediate` effect fires
TimerFires ==
    /\ timer = "armed"
    /\ timer' = "fired"
    /\ executeCall(TimerExec)
    /\ UNCHANGED <<fetchVars, urlVars, appVars, options, mountedRef, phase>>

\* lines 88-94: the async function resolved with result
AsyncResolves(e, result) ==
    /\ execs[e].pc = "pending"
    /\ IF mountedRef
       THEN SetState(executeOnResolve(state, result), "execute")
       ELSE UNCHANGED <<state, lateUpdates>>
    /\ execs' = [execs EXCEPT ![e] = [pc |-> "done", settlement |-> Fulfilled(result),
                                      outcome |-> Returned(result)]]
    /\ UNCHANGED <<fetchVars, urlVars, appVars, options, mountedRef, phase, timer>>

\* lines 95-108: the async function rejected with err
AsyncRejects(e, err) ==
    /\ execs[e].pc = "pending"
    /\ IF mountedRef
       THEN SetState(executeOnReject(state, err), "execute")
       ELSE UNCHANGED <<state, lateUpdates>>
    /\ execs' = [execs EXCEPT ![e] = [pc |-> "done", settlement |-> err,
                                      outcome |-> Returned(Null)]]
    /\ UNCHANGED <<fetchVars, urlVars, appVars, options, mountedRef, phase, timer>>

\* lines 113-115
Reset ==
    /\ phase # "rendered"
    /\ SetState(AsyncState(Null, FALSE, Null), "reset")
    /\ UNCHANGED <<fetchVars, urlVars, appVars, options, mountedRef, phase, timer, execs>>

\* lines 117-119
SetData(data) ==
    /\ phase # "rendered"
    /\ SetState([state EXCEPT !.data = data], "setData")
    /\ UNCHANGED <<fetchVars, urlVars, appVars, options, mountedRef, phase, timer, execs>>

\* lines 128 and 135-137: the cleanups of the effects
Unmount ==
    /\ phase = "mounted"
    /\ phase' = "unmounted"
    /\ timer' = IF timer = "armed" THEN "cleared" ELSE timer
    /\ mountedRef' = FALSE
    /\ UNCHANGED <<fetchVars, urlVars, appVars, options, state, execs, lateUpdates>>

InitAsync ==
    /\ getAccessToken = DefaultGetter
    /\ installed = NotInstalled
    /\ calls = [c \in CallIds |-> IdleCall]
    /\ urlIn = NoUrlIn
    /\ urlOut = NoUrl
    /\ \E opts \in UseAsyncOptions : InitHook(opts)
    /\ InitApp

NextAsync ==
    \/ Mount
    \/ \E e \in UserExecs : Execute(e)
    \/ TimerFires
    \/ \E e \in ExecIds, result \in AsyncResults : AsyncResolves(e, result)
    \/ \E e \in ExecIds, err \in AsyncRejections : AsyncRejects(e, err)
    \/ Reset
    \/ \E data \in AsyncResults \cup {Null} : SetData(data)
    \/ Unmount

SpecAsync == InitAsync /\ [][NextAsync]_vars

\* React runs the effects of a rendered component, the event loop fires an
\* armed timer, and the promise of the async function settles.
SettleExec(e) ==
    \/ \E result \in AsyncResults : AsyncResolves(e, result)
    \/ \E err \in AsyncRejections : AsyncRejects(e, err)
FairAsync ==
    /\ WF_vars(Mount)
    /\ WF_vars(TimerFires)
    /\ \A e \in ExecIds : WF_vars(SettleExec(e))

SpecAsyncFair == SpecAsync /\ FairAsync

(***************************************************************************)
(* The middleware on one request.                                          *)
(***************************************************************************)
InitMw ==
    /\ getAccessToken = DefaultGetter
    /\ installed = NotInstalled
    /\ calls = [c \in CallIds |-> IdleCall]
    /\ urlIn = NoUrlIn
    /\ urlOut = NoUrl
    /\ InitHook(DefaultOptions)
    /\ mw \in {MwRequest(configured, pathname, session) :
                  configured \in BOOLEAN, pathname \in Pathnames,
                  session \in SessionResults}
    /\ serverAction = NoActionCall
    /\ wrap = NoWrap

Middleware ==
    /\ mw.pc = "received"
    /\ mw' = middlewareBegin(mw)
    /\ UNCHANGED <<fetchVars, urlVars, hookVars, serverAction, wrap>>

MiddlewareSession ==
    /\ mw.pc = "awaitSession"
    /\ mw' = middlewareOnSession(mw)
    /\ UNCHANGED <<fetchVars, urlVars, hookVars, serverAction, wrap>>

NextMw == Middleware \/ MiddlewareSession

SpecMw == InitMw /\ [][NextMw]_vars

(***************************************************************************)
(* createClientAction on one form submission; its backend call is the      *)
(* serverFetch invocation ActionFetch.                                     *)
(***************************************************************************)
ActionFetch == "c1"

InitAction ==
    /\ getAccessToken = DefaultGetter
    /\ installed = NotInstalled
    /\ calls = [c \in CallIds |-> IdleCall]
    /\ urlIn = NoUrlIn
    /\ urlOut = NoUrl
    /\ InitHook(DefaultOptions)
    /\ mw = NoMwRequest
    /\ serverAction \in {ActionCall(data) : data \in ActionInputs}
    /\ wrap = NoWrap

\* lines 14-30; parsed.data is the object the form gave
CreateClientAction ==
    /\ serverAction.pc = "idle"
    /\ serverAction' = createClientActionBegin(serverAction)
    /\ IF serverAction'.pc = "awaitCreate"
       THEN \E tokenResult \in Auth0Results :
               calls' = [calls EXCEPT ![ActionFetch] =
                           serverFetchBegin(tokenResult,
                              serverApiClients("create", WrapperArgs(Num(0), <<>>, Obj)))]
       ELSE UNCHANGED calls
    /\ UNCHANGED <<getAccessToken, installed, urlVars, hookVars, mw, wrap>>

\* lines 30-43
CreateClientActionResume ==
    /\ serverAction.pc = "awaitCreate"
    /\ calls[ActionFetch].pc = "done"
    /\ serverAction' = createClientActionResume(serverAction, calls[ActionFetch].outcome)
    /\ UNCHANGED <<fetchVars, urlVars, hookVars, mw, wrap>>

NextAction ==
    \/ CreateClientAction
    \/ ServerFetchTokenSettled(ActionFetch)
    \/ ServerFetchResponse(ActionFetch)
    \/ ServerFetchFetchRejected(ActionFetch)
    \/ ServerFetchErrorBody(ActionFetch)
    \/ ServerFetchBody(ActionFetch)
    \/ CreateClientActionResume

SpecAction == InitAction /\ [][NextAction]_vars

(***************************************************************************)
(* The two wrappers called for the same operation with the same arguments, *)
(* the backend answering both with the same response: WrapClient is the    *)
(* clientService call, WrapServer the serverApi.clients call.              *)
(***************************************************************************)
WrapClient == "c1"
WrapServer == "c2"
ClientIds == {Num(1), Num(2)}
\* list takes params; get, create, update and delete take an id, a data
\* object or both
ArgsOf(op) ==
    IF op = "list"
    THEN {WrapperArgs(Num(1), params, Obj) : params \in CallParams}
    ELSE {WrapperArgs(id, <<>>, Obj) : id \in ClientIds}
WrapperArgSets == UNION {ArgsOf(op) : op \in WrapperOps}

InitWrap ==
    /\ getAccessToken = DefaultGetter
    /\ installed = NotInstalled
    /\ calls = [c \in CallIds |-> IdleCall]
    /\ urlIn = NoUrlIn
    /\ urlOut = NoUrl
    /\ InitHook(DefaultOptions)
    /\ mw = NoMwRequest
    /\ serverAction = NoActionCall
    /\ wrap \in {WrapCall(op, args, r) :
                    op \in WrapperOps, args \in WrapperArgSets, r \in Responses}
    /\ wrap.args \in ArgsOf(wrap.op)

ClientServiceCall ==
    /\ calls[WrapClient].pc = "idle"
    /\ Step(WrapClient, fetchApiBegin(getAccessToken, clientService(wrap.op, wrap.args)))

ServerApiClientsCall ==
    /\ calls[WrapServer].pc = "idle"
    /\ \E tokenResult \in Auth0Results :
          Step(WrapServer,
               serverFetchBegin(tokenResult, serverApiClients(wrap.op, wrap.args)))

\* the backend answers the request of invocation c
WrapResponse(c) ==
    /\ calls[c].pc = "awaitFetch"
    /\ Step(c, IF calls[c].kind = "fetchApi"
               THEN fetchApiOnResponse(calls[c], wrap.response)
               ELSE serverFetchOnResponse(calls[c], wrap.response))

NextWrap ==
    \/ \E g \in Getters : SetTokenGetter(g)
    \/ ClientServiceCall
    \/ ServerApiClientsCall
    \/ FetchApiTokenSettled(WrapClient)
    \/ ServerFetchTokenSettled(WrapServer)
    \/ \E c \in {WrapClient, WrapServer} : WrapResponse(c)
    \/ FetchApiErrorBody(WrapClient)
    \/ FetchApiBody(WrapClient)
    \/ ServerFetchErrorBody(WrapServer)
    \/ ServerFetchBody(WrapServer)

SpecWrap == InitWrap /\ [][NextWrap]_vars

(***************************************************************************)
(* Properties.                                                             *)
(***************************************************************************)
GotResponse(call) == call.response # NoResponse
Success(call) == GotResponse(call) /\ ResponseOk(call.response)
Failure(call) == GotResponse(call) /\ ~ResponseOk(call.response)
Sent(call) == call.request # NoRequest
Decoded(call) == JsonParse(call.response.body)
Validation(call) == SafeParse(call.schema, Decoded(call).doc)

\* C1: a call made with a declared schema either returns a value that was
\* validated against the schema and is its output, or raises an
\* ApiClientError.  Stated for the calls that obtained a response other
\* than 204: the empty result of a 204 and the failure of the transport are
\* the subject of other properties, and are read here in the code's favour.
C1_ValidatedOrTypedError ==
    \A c \in CallIds :
        LET call == calls[c]
        IN (call.pc = "done" /\ call.schema # NoSchema /\ GotResponse(call)
              /\ call.response.status # 204)
           => \/ /\ call.outcome.t = "returned"
                 /\ call.schemaCalls = 1
                 /\ Decoded(call).ok /\ Validation(call).success
                 /\ call.outcome.value = Validation(call).data
              \/ /\ call.outcome.t = "threw"
                 /\ call.outcome.error.cls = "ApiClientError"

\* C2: a response with status 204 yields undefined, whatever the schema and
\* the body: response.json() is never called and the schema never applied.
C2_NoContentIsEmpty ==
    \A c \in CallIds :
        LET call == calls[c]
        IN (GotResponse(call) /\ call.response.status = 204)
           => /\ call.pc = "done"
              /\ call.outcome = Returned(UndefinedDoc)
              /\ call.jsonCalls = 0
              /\ call.schemaCalls = 0

C2_Witness ==
    \E c \in CallIds :
        /\ calls[c].kind = "fetchApi" /\ calls[c].pc = "done"
        /\ calls[c].response.status = 204 /\ calls[c].response.body # EmptyBody
        /\ calls[c].schema = "IdSchema"
        /\ calls[c].outcome = Returned(UndefinedDoc)

\* C3: a 2xx response other than 204 whose decoded body fails the declared
\* schema raises an ApiClientError of status 500 whose detail lists the
\* validation issues; the body is not returned.
C3_ContractViolationIs500 ==
    \A c \in CallIds :
        LET call == calls[c]
        IN (call.pc = "done" /\ Success(call) /\ call.response.status # 204
              /\ call.schema # NoSchema /\ Decoded(call).ok /\ ~Validation(call).success)
           => /\ call.outcome.t = "threw"
              /\ call.outcome.error.cls = "ApiClientError"
              /\ call.outcome.error.status = 500
              /\ call.outcome.error.detail =
                    Str("Validation errors: " \o JoinIssues(Validation(call).issues))

\* C4: a 2xx response other than 204 whose decoded body satisfies the
\* declared schema returns the schema's parsed output, not the decoded body.
C4_ReturnsParsedOutput ==
    \A c \in CallIds :
        LET call == calls[c]
        IN (call.pc = "done" /\ Success(call) /\ call.response.status # 204
              /\ call.schema # NoSchema /\ Decoded(call).ok /\ Validation(call).success)
           => /\ call.outcome.t = "returned"
              /\ call.outcome.value = Validation(call).data
              /\ call.outcome.value.extra = Undef
              /\ call.outcome.value.id.t = "number"

\* the numeric string of the body came back as a number
C4_Witness ==
    \E c \in CallIds :
        /\ calls[c].pc = "done" /\ calls[c].response.status = 200
        /\ calls[c].schema = "CoerceSchema"
        /\ Decoded(calls[c]).doc.id = Str("1")
        /\ calls[c].outcome.t = "returned"
        /\ calls[c].outcome.value.id = Num(1)

\* C5: a response whose status is outside 200-299 never returns data: the
\* call raises an ApiClientError whose status is the response's status and
\* whose detail is the body's, when the body has a string detail.
C5_FailureIsTypedWithStatus ==
    \A c \in CallIds :
        LET call == calls[c]
        IN (call.pc = "done" /\ Failure(call))
           => /\ call.outcome.t = "threw"
              /\ call.outcome.error.cls = "ApiClientError"
              /\ call.outcome.error.status = call.response.status
              /\ (Decoded(call).ok /\ Decoded(call).doc.detail.t = "string"
                    => call.outcome.error.detail = Decoded(call).doc.detail)

\* C6: for a failure response with a JSON body the error's message is the
\* body's detail if the body has one, else the body's message if it has one,
\* else the HTTP status text (on its own, or in the generic string made of it).
C6_MessageByPresence ==
    \A c \in CallIds :
        LET call == calls[c]
            body == Decoded(call).doc
            msg == call.outcome.error.message
        IN (call.pc = "done" /\ Failure(call) /\ Decoded(call).ok)
           => /\ call.outcome.t = "threw"
              /\ IF body.detail # Undef THEN msg = String(body.detail)
                 ELSE IF body.message # Undef THEN msg = String(body.message)
                 ELSE msg \in {call.response.statusText,
                               "API Error: " \o call.response.statusText}

\* C7: a failure response whose body is not JSON raises an ApiClientError
\* whose message is "API Error: <statusText>" and which has no detail.
C7_NonJsonFailureIsGeneric ==
    \A c \in CallIds :
        LET call == calls[c]
        IN (call.pc = "done" /\ Failure(call) /\ ~Decoded(call).ok)
           => /\ call.outcome.t = "threw"
              /\ call.outcome.error.cls = "ApiClientError"
              /\ call.outcome.error.message = "API Error: " \o call.response.statusText
              /\ call.outcome.error.detail = Undef

\* C8, as claimed: a request issued with skipAuth = true carries no
\* Authorization header and the token getter is not invoked.
C8_SkipAuthNoAuthorization ==
    \A c \in CallIds :
        LET call == calls[c]
        IN (call.kind = "fetchApi" /\ call.skipAuth)
           => /\ ~call.getterCalled
              /\ Sent(call) => call.request.headers["Authorization"] = Absent

\* C8, amended: with skipAuth = true the token getter is not invoked and
\* fetchApi adds no Authorization header: the request carries the caller's
\* own Authorization header if `headers` has one, and none otherwise.
C8_SkipAuthAddsNoAuthorization ==
    \A c \in CallIds :
        LET call == calls[c]
        IN (call.kind = "fetchApi" /\ call.skipAuth)
           => /\ ~call.getterCalled
              /\ call.pc # "awaitToken"
              /\ Sent(call) =>
                    call.request.headers["Authorization"] = call.headers["Authorization"]

\* a token is installed and would be given, and the request went out bare
C8_Witness ==
    \E c \in CallIds :
        /\ calls[c].kind = "fetchApi" /\ calls[c].skipAuth /\ Sent(calls[c])
        /\ getAccessToken = "async () => 'tok'"
        /\ calls[c].headers = NoHeaders
        /\ calls[c].request.headers["Authorization"] = Absent

\* the token getter gave null; on the server, the acquisition failed
NoTokenObtained(call) ==
    \/ call.kind = "fetchApi" /\ ~call.skipAuth /\ call.token = Resolved(Null)
    \/ call.kind = "serverFetch" /\ ~call.token.ok

\* C9: when auth is not skipped and no token is obtained (the getter gives
\* null; on the server, the acquisition fails) the request is still sent,
\* no error is raised for it, and the request has no Authorization header
\* (but the caller's own, which fetchApi passes on).
C9_NoTokenGoesUnauthenticated ==
    \A c \in CallIds :
        LET call == calls[c]
        IN (call.pc \notin {"idle", "awaitToken"} /\ NoTokenObtained(call))
           => /\ Sent(call)
              /\ call.outcome.error # GetterFailure
              /\ call.request.headers["Authorization"] = call.headers["Authorization"]

\* the pairs of a built URL under a key; the entries with a value
PairsOf(url, key) == {i \in 1..Len(url.query) : url.query[i].key = FormEncode(key)}
DefinedEntries(params) == {i \in 1..Len(params) : params[i].value # Undef}

\* C10: the built URL has exactly one pair key=String(value), encoded, for
\* each entry of params whose value is not undefined, and no pair at all for
\* an entry whose value is undefined.
C10_OnePairPerDefinedEntry ==
    urlOut # NoUrl =>
        /\ urlOut.href = API_BASE_URL \o urlIn.path
        /\ Len(urlOut.query) = Cardinality(DefinedEntries(urlIn.params))
        /\ \A i \in 1..Len(urlIn.params) :
              LET e == urlIn.params[i]
              IN IF e.value = Undef
                 THEN /\ PairsOf(urlOut, e.key) = {}
                      /\ \A j \in 1..Len(urlOut.query) :
                            PairText(urlOut.query[j]) \notin
                               {e.key \o "=", e.key \o "=undefined"}
                 ELSE /\ Cardinality(PairsOf(urlOut, e.key)) = 1
                      /\ \A j \in PairsOf(urlOut, e.key) :
                            urlOut.query[j].value = FormEncode(String(e.value))

\* serverFetch built a URL from an object with a defined and an undefined entry
C10_Witness ==
    /\ urlOut # NoUrl /\ urlIn.kind = "serverFetch"
    /\ Len(urlIn.params) = 2
    /\ urlIn.params[1].value = Undef /\ urlIn.params[2].value = Str("a b")
    /\ Len(urlOut.query) = 1 /\ urlOut.query[1].value = "a+b"

\* C11: in fetchApi the request carries `Content-Type: application/json`
\* unless the caller gave a Content-Type, and a header the caller gave
\* (Content-Type, Authorization) goes out with the caller's value.
C11_CallerHeadersWin ==
    \A c \in CallIds :
        LET call == calls[c]
        IN (call.kind = "fetchApi" /\ Sent(call))
           => /\ call.request.headers["Content-Type"] =
                    IF call.headers["Content-Type"] # Absent
                    THEN call.headers["Content-Type"]
                    ELSE "application/json"
              /\ call.headers["Authorization"] # Absent =>
                    call.request.headers["Authorization"] = call.headers["Authorization"]

\* C12: a request whose descriptor has a body carries JSON.stringify(body),
\* and a request has no body exactly when the descriptor has none.
C12_BodySentIffSupplied ==
    \A c \in CallIds :
        LET call == calls[c]
        IN Sent(call)
           => /\ (call.request.body = Absent) <=> (call.body = Undef)
              /\ call.body # Undef => call.request.body = JsonStringify(call.body)

C14_TypedOrTransportOnly ==
    \A c \in CallIds :
        LET call == calls[c]
        IN (call.pc = "done" /\ call.outcome.t = "threw")
           => \/ /\ call.outcome.error.cls = "ApiClientError"
                 /\ call.outcome.error.status # NoStatus
              \/ /\ call.rejection # NoError
                 /\ call.outcome.error = call.rejection

\* an invocation past its call of fetch
PastFetch(call) ==
    \/ call.pc \in {"awaitFetch", "awaitBody", "awaitErrorBody"}
    \/ GotResponse(call)
    \/ call.rejection # NoError
\* what an invocation returns for the response it received
ResultOf(call) ==
    IF call.response.status = 204
    THEN Returned(UndefinedDoc)
    ELSE IF call.kind = "fetchApi"
    THEN fetchApiValidate(call.schema, Decoded(call).doc)
    ELSE serverFetchValidate(call.schema, Decoded(call).doc)
\* the continuation of an invocation waiting for its response can run
CanReceive(c) ==
    IF calls[c].kind = "fetchApi"
    THEN ENABLED FetchApiResponse(c) /\ ENABLED FetchApiFetchRejected(c)
    ELSE ENABLED ServerFetchResponse(c) /\ ENABLED ServerFetchFetchRejected(c)

ActiveGetter == IF installed = NotInstalled THEN DefaultGetter ELSE installed

\* C17: the slot holds one getter: the default, which resolves to null,
\* until setTokenGetter is called, and from then on the argument of the
\* last setTokenGetter call; a fetchApi invocation that reads the slot gets
\* its token from that getter.
C17_SlotHoldsLastInstalled ==
    /\ [](/\ getAccessToken = ActiveGetter
          /\ installed = NotInstalled => InvokeGetter(getAccessToken) = Resolved(Null))
    /\ [][\A c \in CallIds :
            (calls[c].pc = "idle" /\ calls'[c].kind = "fetchApi"
                /\ calls'[c].getterCalled)
            => calls'[c].token = InvokeGetter(ActiveGetter)]_vars

\* one invocation read the default getter, setTokenGetter was called, and
\* the other invocation got the token of the installed getter
C17_Witness ==
    /\ installed = "async () => 'tok'"
    /\ calls["c1"].kind = "fetchApi" /\ calls["c1"].getterCalled
    /\ calls["c1"].token = Resolved(Null)
    /\ calls["c2"].kind = "fetchApi" /\ calls["c2"].getterCalled
    /\ calls["c2"].token = Resolved(Str("tok"))
    /\ Sent(calls["c2"]) /\ calls["c2"].request.headers["Authorization"] = "Bearer tok"

\* C18: a step of an invocation leaves the token getter slot as it is; the
\* slot changes only in a setTokenGetter call, to its argument.
C18_OnlySetTokenGetterWrites ==
    /\ [][calls' # calls => getAccessToken' = getAccessToken]_vars
    /\ [][getAccessToken' # getAccessToken =>
            calls' = calls /\ installed' = getAccessToken']_vars

\* a getter that throws is installed; one invocation failed on it, the other
\* returned, and the slot still holds it
C18_Witness ==
    /\ getAccessToken = "async () => { throw }"
    /\ calls["c1"].kind = "fetchApi" /\ calls["c1"].pc = "done"
    /\ calls["c1"].outcome.t = "threw" /\ calls["c1"].outcome.error = GetterFailure
    /\ calls["c2"].kind = "fetchApi" /\ calls["c2"].pc = "done"
    /\ calls["c2"].outcome.t = "returned"

\* execution e settles in this step
Settles(e) == execs[e].pc = "pending" /\ execs'[e].pc = "done"

\* C19: when the async function of an execute() call resolves with a value
\* on a mounted component, the state becomes data = value, loading = false,
\* error = null, and execute() resolves to that value.
C19_ResolveSetsData ==
    [][\A e \in ExecIds :
         (Settles(e) /\ execs'[e].settlement.ok)
         => /\ execs'[e].outcome = Returned(execs'[e].settlement.value)
            /\ phase = "mounted" =>
                  state' = AsyncState(execs'[e].settlement.value, FALSE, Null)]_vars

\* the only execute() call made resolved with 'manual success' and the
\* mounted hook shows it
C19_Witness ==
    /\ phase = "mounted" /\ ~options.immediate
    /\ execs["e1"].pc = "done" /\ execs["e1"].settlement = Fulfilled(Str("manual success"))
    /\ execs["e1"].outcome = Returned(Str("manual success"))
    /\ execs["e2"].pc = "idle" /\ execs[TimerExec].pc = "idle"
    /\ state = AsyncState(Str("manual success"), FALSE, Null)

\* C20: when the async function of an execute() call rejects, execute()
\* resolves to null; on a mounted component loading becomes false, error
\* becomes the message of the Error, or 'An unexpected error occurred' for
\* a rejection that is not an Error, and data stays as it was.
C20_RejectSetsError ==
    [][\A e \in ExecIds :
         (Settles(e) /\ ~execs'[e].settlement.ok)
         => /\ execs'[e].outcome = Returned(Null)
            /\ phase = "mounted" =>
                  /\ state'.loading = FALSE
                  /\ state'.error =
                        IF execs'[e].settlement.isError
                        THEN Str(execs'[e].settlement.message)
                        ELSE Str("An unexpected error occurred")
                  /\ state'.data = state.data]_vars

\* a first execute() call gave data, a second one rejected with something
\* that is not an Error: the data is still shown, with the generic message
C20_Witness ==
    /\ phase = "mounted" /\ ~options.resetOnExecute
    /\ execs["e1"].pc = "done" /\ execs["e1"].settlement.ok
    /\ execs["e2"].pc = "done" /\ execs["e2"].settlement = RejectedWith(FALSE, "thrown string")
    /\ execs["e2"].outcome = Returned(Null)
    /\ state = AsyncState(execs["e1"].settlement.value, FALSE,
                          Str("An unexpected error occurred"))

\* no execute() call was made by the user
NoUserExecute == \A e \in UserExecs : execs[e].pc = "idle"
\* the execute() call of the `immediate` timer ended on a mounted hook whose
\* state shows what the async function settled with
ImmediateRunShown ==
    /\ execs[TimerExec].pc = "done"
    /\ execs[TimerExec].settlement.ok =>
          state = AsyncState(execs[TimerExec].settlement.value, FALSE, Null)

\* C21: with immediate = false the hook is first rendered idle and the
\* async function runs only in execute() calls of the user; with
\* immediate = true it is first rendered with loading = true, the async
\* function is called once, by the timer armed at mount and with no call
\* by the user, and, unless the component unmounts first, that run ends,
\* with data = result, loading = false, error = null when it resolved.
C21_ImmediateRunsOnceAfterMount ==
    /\ [](/\ phase = "rendered" =>
                state = AsyncState(Null, options.immediate, Null) /\ NoUserExecute
          /\ ~options.immediate => timer = "none" /\ execs[TimerExec].pc = "idle"
          /\ (~options.immediate /\ NoUserExecute) => ~state.loading
          /\ options.immediate => (timer = "none" <=> phase = "rendered")
          /\ execs[TimerExec].pc # "idle" <=> timer = "fired")
    /\ [][/\ timer = "fired" => timer' = "fired"
          /\ (execs[TimerExec].pc = "idle" /\ execs'[TimerExec].pc # "idle")
                => phase = "mounted" /\ timer = "armed" /\ state'.loading]_vars
    /\ (options.immediate /\ phase = "rendered")
          ~> (phase = "unmounted" \/ ImmediateRunShown)

\* rendered with immediate: true, never unmounted, no execute() call by the
\* user: the run of the timer resolved and the hook shows its result
C21_Witness ==
    /\ options.immediate /\ phase = "mounted" /\ NoUserExecute
    /\ execs[TimerExec].pc = "done"
    /\ execs[TimerExec].settlement = Fulfilled(Str("success"))
    /\ state = AsyncState(Str("success"), FALSE, Null)

\* C22: a reset() call on a mounted hook leaves the state equal to the
\* state of the first render, whatever the `immediate` option is.
C22_ResetRestoresInitialState ==
    [][(Reset /\ phase = "mounted") => state' = InitialState(options)]_vars

\* C23: no step of an execute() call, one in flight at the unmount or one
\* started after it, calls setState after the unmount cleanup has run.
C23_NoSetStateAfterUnmount ==
    "execute" \notin lateUpdates

\* C28: on a mounted hook loading is true while an execute() call is in
\* flight, and an execute() step turns loading off only when it leaves no
\* call in flight.
C28_LoadingWhileInFlight ==
    [][(phase = "mounted" /\ ~Reset)
       => /\ (execs' # execs /\ \E e \in ExecIds : execs'[e].pc = "pending")
               => state'.loading
          /\ (state.loading /\ ~state'.loading /\ execs' # execs)
               => \A e \in ExecIds : execs'[e].pc # "pending"]_vars

\* C24: an invocation suspends only to wait for the network response: one
\* that holds its response has already returned or thrown, so no step of
\* another invocation and no setTokenGetter call comes in between.
C24_NoSuspensionAfterResponse ==
    \A c \in CallIds : GotResponse(calls[c]) => calls[c].pc = "done"

\* the pathname is the route or lies below it
UnderRoute(pathname, route) == pathname = route \/ StartsWith(pathname, route \o "/")
IsAuthPath(pathname) == UnderRoute(pathname, "/auth")
IsProtectedPath(pathname) == \E route \in PROTECTED_ROUTES : UnderRoute(pathname, route)

\* C27: with Auth0 configured, a request under /auth is answered by the
\* Auth0 handler; a request under a protected route continues if there is a
\* session, is redirected to the login route with returnTo = its pathname
\* if there is none, and to the login route if reading the session throws;
\* a request to any other path continues.
C27_ProtectedNeedsSession ==
    (mw.pc = "done" /\ mw.configured)
    => mw.response =
          CASE IsAuthPath(mw.pathname) -> MwAuth0
            [] IsProtectedPath(mw.pathname) /\ mw.session = "session" -> MwNext
            [] IsProtectedPath(mw.pathname) /\ mw.session = "null" ->
                  MwRedirect(LoginRoute, mw.pathname)
            [] IsProtectedPath(mw.pathname) /\ mw.session = "throws" ->
                  MwRedirect(LoginRoute, Absent)
            [] OTHER -> MwNext

\* what the action did besides calling the backend
Revalidated == \E i \in 1..Len(serverAction.effects) :
                  serverAction.effects[i] = "revalidatePath /dashboard/clients"
Redirected == \E i \in 1..Len(serverAction.effects) :
                 serverAction.effects[i] = "redirect /dashboard/clients"

\* C25: the action revalidates and then redirects to /dashboard/clients
\* only after the backend call returned, and the NEXT_REDIRECT error of
\* redirect leaves the action uncaught; when the backend call throws, the
\* action returns {success: false, message} with neither effect.
C25_RedirectOnlyAfterCreate ==
    LET created == calls[ActionFetch]
    IN /\ (Revalidated \/ Redirected) =>
             /\ created.pc = "done" /\ created.outcome.t = "returned"
             /\ serverAction.effects = <<"revalidatePath /dashboard/clients",
                                         "redirect /dashboard/clients">>
             /\ serverAction.outcome = ActionThrew(NEXT_REDIRECT)
       /\ (serverAction.pc = "done" /\ created.outcome.t = "returned") => Redirected
       /\ (serverAction.pc = "done" /\ created.outcome.t = "threw") =>
             /\ serverAction.effects = <<>>
             /\ serverAction.outcome.t = "returned"
             /\ ~serverAction.outcome.value.success
             /\ ~serverAction.outcome.value.hasErrors
             /\ serverAction.outcome.value.message =
                   IF created.outcome.error.message # ""
                   THEN created.outcome.error.message
                   ELSE "Failed to create client. Please try again."

\* the backend answered 200 with a client: revalidated, then redirected
C25_Witness ==
    /\ serverAction.pc = "done" /\ Redirected
    /\ calls[ActionFetch].response.status = 200
    /\ calls[ActionFetch].outcome.t = "returned"
    /\ serverAction.outcome = ActionThrew(NEXT_REDIRECT)

\* C26: for input that fails ClientCreateSchema the action makes no backend
\* call, does not revalidate or redirect, and returns {success: false,
\* errors, message} with the fields in error (none when the input is not
\* an object); a backend call it makes carries input that passed the schema.
C26_InvalidInputEndsEarly ==
    LET parsed == ClientCreateParse(serverAction.data)
    IN /\ calls[ActionFetch].kind # "none" => parsed.success
       /\ (~parsed.success /\ serverAction.pc # "idle") =>
             /\ serverAction.pc = "done"
             /\ calls[ActionFetch] = IdleCall
             /\ serverAction.effects = <<>>
             /\ serverAction.outcome =
                   ActionReturned(ActionResult(TRUE, parsed.fieldErrors,
                                     "Validation failed. Please check the form."))

\* a form with an empty name and a slug with a space ended with both fields
\* in error
C26_Witness ==
    /\ serverAction.pc = "done"
    /\ serverAction.data = FormData(Str(""), Str("Bad Slug"), Bool(TRUE))
    /\ serverAction.outcome.value.errors = {"name", "slug"}
    /\ calls[ActionFetch].fetchCalls = 0

\* the HTTP method of each operation
MethodOf(op) ==
    CASE op \in {"list", "get"} -> "GET"
      [] op = "create" -> "POST"
      [] op = "update" -> "PATCH"
      [] OTHER -> "DELETE"

\* C29: for each of list, get, create, update and delete, clientService and
\* serverApi.clients make their request with the same method, the same
\* path under /api/v1/clients, the same query and body and the same
\* response schema (none for delete), and for the same response they end
\* alike, returning the same value when they return.
C29_WrappersEquivalent ==
    LET a == calls[WrapClient]
        b == calls[WrapServer]
    IN /\ (a.kind # "none" /\ b.kind # "none") =>
             /\ a.method = MethodOf(wrap.op) /\ b.method = MethodOf(wrap.op)
             /\ a.path = b.path /\ StartsWith(a.path, BASE_PATH)
             /\ a.params = b.params
             /\ a.body = b.body
             /\ a.schema = b.schema
             /\ (a.schema = NoSchema) <=> (wrap.op = "delete")
       /\ (Sent(a) /\ Sent(b)) =>
             /\ a.request.url = b.request.url
             /\ a.request.method = b.request.method
             /\ a.request.body = b.request.body
       /\ (a.pc = "done" /\ b.pc = "done" /\ GotResponse(a) /\ GotResponse(b)) =>
             /\ a.outcome.t = b.outcome.t
             /\ a.outcome.value = b.outcome.value

\* update(2, data) through both wrappers, answered 200 with a client: both
\* returned the parsed client
C29_Witness ==
    /\ wrap.op = "update" /\ wrap.args.id = Num(2)
    /\ wrap.response = Response(200, "{'id':1,'extra':0}")
    /\ calls[WrapClient].pc = "done" /\ calls[WrapServer].pc = "done"
    /\ calls[WrapClient].request.url.href = API_BASE_URL \o "/api/v1/clients/2"
    /\ calls[WrapClient].outcome = Returned(ObjDoc(Undef, Undef, Num(1), Undef))
    /\ calls[WrapServer].outcome = calls[WrapClient].outcome

====
